---- MODULE Spec2Model ----
(***************************************************************************)
(* Model of FP-5.py: the customer information form (tkinter) and its       *)
(* SQLite store customer_info.db.                                          *)
(*                                                                         *)
(* Strings are sequences of one-character strings, so that str.strip, the  *)
(* two regular expressions and datetime.strptime are computed character by *)
(* character as the Python code computes them.                             *)
(***************************************************************************)
EXTENDS Integers, Sequences, FiniteSets, TLC

VARIABLES var_name, var_bday, var_email, var_phone, var_contact, txt_address,
          tables, rows, sqlite_sequence, con_open, dialog, last

form == <<var_name, var_bday, var_email, var_phone, var_contact, txt_address>>
db   == <<tables, rows, sqlite_sequence>>
vars == <<var_name, var_bday, var_email, var_phone, var_contact, txt_address,
          tables, rows, sqlite_sequence, con_open, dialog, last>>

(***************************************************************************)
(* Bounds                                                                  *)
(***************************************************************************)
\* largest number of rows the model lets the customers table grow to
MaxRows == 2

(***************************************************************************)
(* Characters and str.strip                                                *)
(***************************************************************************)
Whitespace == {" ", "\t", "\n"}

Digits == {"0", "1", "2", "3", "4", "5", "6", "7", "8", "9"}

DigitVal(c) ==
    CASE c = "0" -> 0 [] c = "1" -> 1 [] c = "2" -> 2 [] c = "3" -> 3
      [] c = "4" -> 4 [] c = "5" -> 5 [] c = "6" -> 6 [] c = "7" -> 7
      [] c = "8" -> 8 [] c = "9" -> 9

RECURSIVE lstrip(_)
lstrip(s) ==
    IF s # <<>> /\ Head(s) \in Whitespace THEN lstrip(Tail(s)) ELSE s

RECURSIVE rstrip(_)
rstrip(s) ==
    IF s # <<>> /\ s[Len(s)] \in Whitespace
    THEN rstrip(SubSeq(s, 1, Len(s) - 1))
    ELSE s

\* str.strip(): leading and trailing whitespace removed
strip(s) == rstrip(lstrip(s))

(***************************************************************************)
(* Regular expressions                                                     *)
(***************************************************************************)
\* the position(s) where "$" can match: the end of the string, or just
\* before a newline that is the last character
DollarEnds(s) ==
    {Len(s)} \cup (IF s # <<>> /\ s[Len(s)] = "\n" THEN {Len(s) - 1} ELSE {})

\* [^@\s]
EmailChar(c) == c # "@" /\ c \notin Whitespace

\* EMAIL_RE.match(s): ^[^@\s]+@[^@\s]+\.[^@\s]+$
EMAIL_RE(s) ==
    \E e \in DollarEnds(s) :
      \E i \in 1..e : \E j \in 1..e :
        /\ 1 < i /\ i + 1 < j /\ j < e
        /\ s[i] = "@"
        /\ s[j] = "."
        /\ \A k \in 1..e : (k # i /\ k # j) => EmailChar(s[k])

\* [0-9\s\-\+\(\)]
PhoneChar(c) == c \in Digits \cup Whitespace \cup {"-", "+", "(", ")"}

\* PHONE_RE.match(s): ^[0-9\s\-\+\(\)]{7,}$
PHONE_RE(s) ==
    \E e \in DollarEnds(s) :
        /\ e >= 7
        /\ \A k \in 1..e : PhoneChar(s[k])

(***************************************************************************)
(* datetime.strptime(bday, "%Y-%m-%d")                                     *)
(***************************************************************************)
IsDigitAt(s, p) == p >= 1 /\ p <= Len(s) /\ s[p] \in Digits

IsCharAt(s, p, cs) == p >= 1 /\ p <= Len(s) /\ s[p] \in cs

NoMatch == [ok |-> FALSE, val |-> 0, end |-> 0]

\* %d at position p: 3[0-1] | [1-2]\d | 0[1-9] | [1-9] | " "[1-9],
\* the first alternative that matches wins (nothing follows it in the format)
DayAt(s, p) ==
    IF IsCharAt(s, p, {"3"}) /\ IsCharAt(s, p + 1, {"0", "1"})
    THEN [ok |-> TRUE, val |-> 30 + DigitVal(s[p + 1]), end |-> p + 1]
    ELSE IF IsCharAt(s, p, {"1", "2"}) /\ IsDigitAt(s, p + 1)
    THEN [ok |-> TRUE, val |-> 10 * DigitVal(s[p]) + DigitVal(s[p + 1]),
          end |-> p + 1]
    ELSE IF IsCharAt(s, p, {"0"}) /\ IsCharAt(s, p + 1, Digits \ {"0"})
    THEN [ok |-> TRUE, val |-> DigitVal(s[p + 1]), end |-> p + 1]
    ELSE IF IsCharAt(s, p, Digits \ {"0"})
    THEN [ok |-> TRUE, val |-> DigitVal(s[p]), end |-> p]
    ELSE IF IsCharAt(s, p, {" "}) /\ IsCharAt(s, p + 1, Digits \ {"0"})
    THEN [ok |-> TRUE, val |-> DigitVal(s[p + 1]), end |-> p + 1]
    ELSE NoMatch

\* "-%d" after a month that ends at position e
RestAfterMonth(s, e) ==
    IF IsCharAt(s, e + 1, {"-"}) THEN DayAt(s, e + 2) ELSE NoMatch

\* %m-%d at position p: the month is 1[0-2] | 0[1-9] | [1-9]; an alternative
\* is kept only if the rest of the format matches after it (backtracking)
MonthDayAt(s, p) ==
    IF /\ IsCharAt(s, p, {"1"}) /\ IsCharAt(s, p + 1, {"0", "1", "2"})
       /\ RestAfterMonth(s, p + 1).ok
    THEN [ok |-> TRUE, month |-> 10 + DigitVal(s[p + 1]),
          day |-> RestAfterMonth(s, p + 1).val,
          end |-> RestAfterMonth(s, p + 1).end]
    ELSE IF /\ IsCharAt(s, p, {"0"}) /\ IsCharAt(s, p + 1, Digits \ {"0"})
            /\ RestAfterMonth(s, p + 1).ok
    THEN [ok |-> TRUE, month |-> DigitVal(s[p + 1]),
          day |-> RestAfterMonth(s, p + 1).val,
          end |-> RestAfterMonth(s, p + 1).end]
    ELSE IF IsCharAt(s, p, Digits \ {"0"}) /\ RestAfterMonth(s, p).ok
    THEN [ok |-> TRUE, month |-> DigitVal(s[p]),
          day |-> RestAfterMonth(s, p).val,
          end |-> RestAfterMonth(s, p).end]
    ELSE [ok |-> FALSE, month |-> 0, day |-> 0, end |-> 0]

\* the format's regular expression matched at the start of s:
\* (\d\d\d\d)-(%m)-(%d)
FormatMatch(s) ==
    IF /\ \A p \in 1..4 : IsDigitAt(s, p)
       /\ IsCharAt(s, 5, {"-"})
       /\ MonthDayAt(s, 6).ok
    THEN [ok |-> TRUE,
          year |-> 1000 * DigitVal(s[1]) + 100 * DigitVal(s[2])
                   + 10 * DigitVal(s[3]) + DigitVal(s[4]),
          month |-> MonthDayAt(s, 6).month,
          day |-> MonthDayAt(s, 6).day,
          end |-> MonthDayAt(s, 6).end]
    ELSE [ok |-> FALSE, year |-> 0, month |-> 0, day |-> 0, end |-> 0]

IsLeap(y) == y % 4 = 0 /\ (y % 100 # 0 \/ y % 400 = 0)

DaysInMonth(y, m) ==
    IF m = 2 THEN (IF IsLeap(y) THEN 29 ELSE 28)
    ELSE IF m \in {4, 6, 9, 11} THEN 30 ELSE 31

\* the date constructor: ValueError unless MINYEAR <= y and the day exists
ValidDate(y, m, d) ==
    /\ y >= 1
    /\ m >= 1 /\ m <= 12
    /\ d >= 1 /\ d <= DaysInMonth(y, m)

\* strptime does not raise: the format matches, no unconverted data
\* remains, and the fields make a date
strptime_ok(s) ==
    /\ FormatMatch(s).ok
    /\ FormatMatch(s).end = Len(s)
    /\ ValidDate(FormatMatch(s).year, FormatMatch(s).month, FormatMatch(s).day)

(***************************************************************************)
(* Validation helpers of CustomerApp                                       *)
(***************************************************************************)
_validate_name(name) == strip(name) # <<>>

_validate_birthday(bday) == strptime_ok(bday)

_validate_email(email) == EMAIL_RE(email)

_validate_phone(phone) == PHONE_RE(phone)

_validate_address(address) == Len(strip(address)) > 0

(***************************************************************************)
(* String values                                                           *)
(***************************************************************************)
Email == <<"E", "m", "a", "i", "l">>

Phone == <<"P", "h", "o", "n", "e">>

Mail == <<"M", "a", "i", "l">>

\* the set literal of on_submit and the combobox values
ContactValues == {Email, Phone, Mail}

\* a NULL bound to a parameter (Python None); no string equals it
NULL == <<"NULL">>

Columns == <<"name", "birthday", "email", "phone", "address",
             "preferred_contact">>

(***************************************************************************)
(* The store                                                               *)
(***************************************************************************)
\* CREATE TABLE customers: the NOT NULL columns, the CHECK on
\* preferred_contact (compared byte for byte) and the AUTOINCREMENT key
TABLE_SQL ==
    [name |-> "customers",
     not_null |-> {"name", "birthday", "email", "phone", "address",
                   "preferred_contact"},
     check_in |-> {Email, Phone, Mail},
     autoincrement |-> TRUE]

HasTable(ts) == \E t \in ts : t.name = "customers"

\* CREATE TABLE IF NOT EXISTS customers
CreateTableIfNotExists(ts) ==
    IF HasTable(ts) THEN ts ELSE ts \cup {TABLE_SQL}

\* how an operation on the store can fail for reasons outside the program:
\* the file cannot be opened, or the statement cannot be written
IOOutcomes == {"ok", "connect", "write"}

RECURSIVE FirstNull(_, _)
\* the first NOT NULL column (in column order) that is bound to NULL, or ""
FirstNull(data, i) ==
    IF i > Len(Columns) THEN ""
    ELSE IF Columns[i] \in TABLE_SQL.not_null /\ data[Columns[i]] = NULL
    THEN Columns[i]
    ELSE FirstNull(data, i + 1)

\* variant: the CHECK compares the value with its surrounding blanks removed
CheckConstraint_Trimmed(data) ==
    strip(data.preferred_contact) \in TABLE_SQL.check_in

\* the CHECK constraint of the table
CheckConstraint(data) == data.preferred_contact \in TABLE_SQL.check_in

\* the exceptions sqlite3 raises
UnableToOpen == "OperationalError: unable to open database file"

DiskError == "OperationalError: disk I/O error"

NoSuchTable == "OperationalError: no such table: customers"

NotNullFailed == "IntegrityError: NOT NULL constraint failed"

CheckFailed == "IntegrityError: CHECK constraint failed"

\* the exception the INSERT statement raises on an open connection, or "None"
InsertRaises(ts, data, io) ==
    IF ~HasTable(ts) THEN NoSuchTable
    ELSE IF FirstNull(data, 1) # "" THEN NotNullFailed
    ELSE IF ~CheckConstraint(data) THEN CheckFailed
    ELSE IF io = "write" THEN DiskError
    ELSE "None"

\* variant: the key is the largest id in use, not one more
NextId_Reused(seq) == IF seq = 0 THEN 1 ELSE seq

\* AUTOINCREMENT: one more than the largest id the table ever held
NextId(seq) == seq + 1

\* variant: the email and phone parameters are bound to each other's column
NewRow_Swapped(seq, data) ==
    [id |-> NextId(seq),
     name |-> data.name,
     birthday |-> data.birthday,
     email |-> data.phone,
     phone |-> data.email,
     address |-> data.address,
     preferred_contact |-> data.preferred_contact,
     created_at |-> "CURRENT_TIMESTAMP"]

\* the row the INSERT statement writes; created_at takes the column's
\* default, whatever the clock reads
NewRow(seq, data) ==
    [id |-> NextId(seq),
     name |-> data.name,
     birthday |-> data.birthday,
     email |-> data.email,
     phone |-> data.phone,
     address |-> data.address,
     preferred_contact |-> data.preferred_contact,
     created_at |-> "CURRENT_TIMESTAMP"]

\* variant: the statement is not rolled back when writing it fails
RowsAfter_NoRollback(rs, seq, data, raised) ==
    IF raised \in {"None", DiskError}
    THEN Append(rs, NewRow(seq, data))
    ELSE rs

\* variant: INSERT OR REPLACE, the new row takes the place of the oldest
RowsAfter_Replace(rs, seq, data, raised) ==
    IF raised = "None"
    THEN Append(IF rs = <<>> THEN rs ELSE Tail(rs), NewRow(seq, data))
    ELSE rs

\* "with con:" commits the statement if it raised nothing and rolls it back
\* otherwise
RowsAfter(rs, seq, data, raised) ==
    IF raised = "None" THEN Append(rs, NewRow(seq, data)) ELSE rs

SeqAfter(seq, raised) ==
    IF raised = "None" THEN NextId(seq) ELSE seq

\* "finally: con.close()": whether the connection is still open when
\* save_to_db is left
ConAfterSave(raised) == FALSE

\* save_to_db(data): what it raises, what the store holds afterwards, and
\* what it returns (nothing: Python None, the empty set here)
save_to_db(ts, rs, seq, data, io) ==
    IF io = "connect"
    THEN [raised |-> UnableToOpen, rows |-> rs, seq |-> seq,
          con_open |-> FALSE, ret |-> {}]
    ELSE [raised |-> InsertRaises(ts, data, io),
          rows |-> RowsAfter(rs, seq, data, InsertRaises(ts, data, io)),
          seq |-> SeqAfter(seq, InsertRaises(ts, data, io)),
          con_open |-> ConAfterSave(InsertRaises(ts, data, io)),
          ret |-> {}]

NoInput ==
    [name |-> <<>>, birthday |-> <<>>, email |-> <<>>, phone |-> <<>>,
     address |-> <<>>, preferred_contact |-> <<>>]

NoDialog == [kind |-> "none", title |-> "", body |-> <<>>]

\* variant: CREATE TABLE without IF NOT EXISTS
InitDbRaises_NoIfNotExists(ts, io) ==
    IF io = "connect" THEN UnableToOpen
    ELSE IF HasTable(ts) THEN "OperationalError: table customers already exists"
    ELSE IF io = "write" THEN DiskError
    ELSE "None"

\* what init_db raises, or "None": the file cannot be opened, or the table
\* has to be created and cannot be written
InitDbRaises(ts, io) ==
    IF io = "connect" THEN UnableToOpen
    ELSE IF io = "write" /\ ~HasTable(ts) THEN DiskError
    ELSE "None"

\* init_db(): connect, CREATE TABLE IF NOT EXISTS, commit, close
init_db ==
    \E io \in IOOutcomes :
        /\ tables' = IF InitDbRaises(tables, io) = "None"
                     THEN CreateTableIfNotExists(tables)
                     ELSE tables
        /\ con_open' = FALSE
        /\ dialog' = NoDialog
        /\ last' = [op |-> "init_db", input |-> NoInput, errors |-> <<>>,
                    invoked |-> FALSE,
                    raised |-> InitDbRaises(tables, io),
                    ret |-> {}]
        /\ UNCHANGED <<form, rows, sqlite_sequence>>

(***************************************************************************)
(* The form                                                                *)
(***************************************************************************)
\* Text.get("1.0", "end"): the text of the widget and the newline Tk adds
TextGet(content) == content \o <<"\n">>

\* the violation messages (without their leading bullet)
MsgName == "Name is required."

MsgBirthday == "Birthday must be in YYYY-MM-DD format (e.g., 2001-04-09)."

MsgEmail == "Email appears invalid (e.g., name@example.com)."

MsgPhone == "Phone appears invalid (allow digits, spaces, +, -, parentheses)."

MsgAddress == "Address is required."

MsgContact == "Preferred contact must be Email, Phone, or Mail."

\* variant: the checks stop at the first one that fails
Errors_FirstOnly(name, bday, email, phone, address, contact) ==
    IF ~_validate_name(name) THEN <<MsgName>>
    ELSE IF ~_validate_birthday(bday) THEN <<MsgBirthday>>
    ELSE IF ~_validate_email(email) THEN <<MsgEmail>>
    ELSE IF ~_validate_phone(phone) THEN <<MsgPhone>>
    ELSE IF ~_validate_address(address) THEN <<MsgAddress>>
    ELSE IF contact \notin ContactValues THEN <<MsgContact>>
    ELSE <<>>

\* the six checks of on_submit, each appending its message when it fails
Errors(name, bday, email, phone, address, contact) ==
    (IF ~_validate_name(name) THEN <<MsgName>> ELSE <<>>)
    \o (IF ~_validate_birthday(bday) THEN <<MsgBirthday>> ELSE <<>>)
    \o (IF ~_validate_email(email) THEN <<MsgEmail>> ELSE <<>>)
    \o (IF ~_validate_phone(phone) THEN <<MsgPhone>> ELSE <<>>)
    \o (IF ~_validate_address(address) THEN <<MsgAddress>> ELSE <<>>)
    \o (IF contact \notin ContactValues THEN <<MsgContact>> ELSE <<>>)

\* variant: the "return" after the error dialog is missing
ShouldReturn_Never(errors) == FALSE

\* "if errors: ... return"
ShouldReturn(errors) == errors # <<>>

\* the values on_submit reads from the widgets, before .strip()
RawInput ==
    [name |-> var_name, birthday |-> var_bday, email |-> var_email,
     phone |-> var_phone, address |-> TextGet(txt_address),
     preferred_contact |-> var_contact]

\* the six locals of on_submit
Stripped(raw) ==
    [name |-> strip(raw.name), birthday |-> strip(raw.birthday),
     email |-> strip(raw.email), phone |-> strip(raw.phone),
     address |-> strip(raw.address),
     preferred_contact |-> strip(raw.preferred_contact)]

ErrorsOf(d) ==
    Errors(d.name, d.birthday, d.email, d.phone, d.address,
           d.preferred_contact)

\* the assignments of clear_form
ClearFields ==
    /\ var_name' = <<>>
    /\ var_bday' = <<>>
    /\ var_email' = <<>>
    /\ var_phone' = <<>>
    /\ var_contact' = Email
    /\ txt_address' = <<>>

clear_form ==
    /\ ClearFields
    /\ dialog' = NoDialog
    /\ last' = [op |-> "clear_form", input |-> NoInput, errors |-> <<>>,
                invoked |-> FALSE, raised |-> "None", ret |-> {}]
    /\ UNCHANGED <<db, con_open>>

\* on_submit: read and strip the six fields, validate, then save and clear
on_submit ==
    LET raw    == RawInput
        data   == Stripped(raw)
        errors == ErrorsOf(data)
    IN  IF ShouldReturn(errors)
        THEN /\ dialog' = [kind |-> "showerror",
                           title |-> "Please fix the following",
                           body |-> errors]
             /\ last' = [op |-> "on_submit", input |-> raw,
                         errors |-> errors, invoked |-> FALSE,
                         raised |-> "None", ret |-> {}]
             /\ UNCHANGED <<form, db, con_open>>
        ELSE \E io \in IOOutcomes :
             LET r == save_to_db(tables, rows, sqlite_sequence, data, io)
             IN  /\ r.raised = "None" => Len(rows) < MaxRows
                 /\ rows' = r.rows
                 /\ sqlite_sequence' = r.seq
                 /\ con_open' = r.con_open
                 /\ tables' = tables
                 /\ last' = [op |-> "on_submit", input |-> raw,
                             errors |-> errors, invoked |-> TRUE,
                             raised |-> r.raised, ret |-> r.ret]
                 /\ IF r.raised = "None"
                    THEN /\ dialog' = [kind |-> "showinfo",
                                       title |-> "Success",
                                       body |-> <<"Customer information saved.">>]
                         /\ ClearFields
                    ELSE /\ dialog' = [kind |-> "showerror",
                                       title |-> "Error",
                                       body |-> <<"Could not save data:",
                                                  r.raised>>]
                         /\ UNCHANGED form

(***************************************************************************)
(* The user at the widgets                                                 *)
(***************************************************************************)
\* what the model's user types into the name entry
NameTyped ==
    {<<" ", "A", "l", " ">>,
     <<"A", "l">>}

BirthdayTyped ==
    {<<"2", "0", "0", "1", "-", "0", "4", "-", "0", "9">>,
     <<"2", "0", "0", "1", "-", "4", "-", "9">>}

EmailTyped ==
    {<<"a", "@", "b", ".", "c">>}

PhoneTyped ==
    {<<"5", "5", "5", "-", "1", "2", "3", "4">>}

AddressTyped ==
    {<<"1", " ", "M", "a", "i", "n">>}

\* the combobox value the model's user picks; Email is the value the form
\* starts with and is cleared to
ContactSelected == {Phone}

Edited(op) ==
    /\ dialog' = NoDialog
    /\ last' = [op |-> op, input |-> NoInput, errors |-> <<>>,
                invoked |-> FALSE, raised |-> "None", ret |-> {}]
    /\ UNCHANGED <<db, con_open>>

\* the entry bound to var_name
type_name ==
    \E v \in NameTyped :
        /\ var_name' = v
        /\ UNCHANGED <<var_bday, var_email, var_phone, var_contact, txt_address>>
        /\ Edited("type_name")

\* the entry bound to var_bday
type_bday ==
    \E v \in BirthdayTyped :
        /\ var_bday' = v
        /\ UNCHANGED <<var_name, var_email, var_phone, var_contact, txt_address>>
        /\ Edited("type_bday")

\* the entry bound to var_email
type_email ==
    \E v \in EmailTyped :
        /\ var_email' = v
        /\ UNCHANGED <<var_name, var_bday, var_phone, var_contact, txt_address>>
        /\ Edited("type_email")

\* the entry bound to var_phone
type_phone ==
    \E v \in PhoneTyped :
        /\ var_phone' = v
        /\ UNCHANGED <<var_name, var_bday, var_email, var_contact, txt_address>>
        /\ Edited("type_phone")

\* the text widget txt_address
type_address ==
    \E v \in AddressTyped :
        /\ txt_address' = v
        /\ UNCHANGED <<var_name, var_bday, var_email, var_phone, var_contact>>
        /\ Edited("type_address")

\* the read-only combobox bound to var_contact
select_contact ==
    \E v \in ContactSelected :
        /\ var_contact' = v
        /\ UNCHANGED <<var_name, var_bday, var_email, var_phone, txt_address>>
        /\ Edited("select_contact")

(***************************************************************************)
(* Specification of the application: an empty store, the form as           *)
(* CustomerApp.__init__ builds it                                          *)
(***************************************************************************)
Init ==
    /\ var_name = <<>>
    /\ var_bday = <<>>
    /\ var_email = <<>>
    /\ var_phone = <<>>
    /\ var_contact = Email
    /\ txt_address = <<>>
    /\ tables = {}
    /\ rows = <<>>
    /\ sqlite_sequence = 0
    /\ con_open = FALSE
    /\ dialog = NoDialog
    /\ last = [op |-> "__init__", input |-> NoInput, errors |-> <<>>,
               invoked |-> FALSE, raised |-> "None", ret |-> {}]

Next ==
    \/ init_db
    \/ on_submit
    \/ clear_form
    \/ type_name
    \/ type_bday
    \/ type_email
    \/ type_phone
    \/ type_address
    \/ select_contact

Spec == Init /\ [][Next]_vars

(***************************************************************************)
(* Specification of the validation step: the six fields hold any of the    *)
(* inputs below, on an initialised, empty store                            *)
(***************************************************************************)
NameInputs ==
    {<<>>,
     <<" ", "\t">>,
     <<" ", "A", "l", " ">>}

BirthdaySubmitted ==
    {<<>>,
     <<"2", "0", "0", "1", "-", "0", "4", "-", "0", "9", " ">>,
     <<"1", "9", "9", "0", "-", "1", "3", "-", "4", "0">>,
     <<"2", "0", "0", "1", "-", "4", "-", "9">>}

EmailInputs ==
    {<<"b", "a", "d">>,
     <<"a", "@", "b", ".", "c", "o">>,
     <<"a", " ", "b", "@", "c", ".", "d">>,
     <<"a", "@", "b", ".", "c", "o", "\n">>}

PhoneInputs ==
    {<<"1", "2", "3">>,
     <<"5", "5", "5", "-", "1", "2", "3", "-", "4", "5", "6", "7">>,
     <<"1", "2", "a", "4", "5", "6", "7">>,
     <<" ", " ", " ", " ", " ", " ", " ">>}

AddressInputs ==
    {<<>>,
     <<"1", " ", "M", "a", "i", "n", " ", "S", "t">>}

ContactInputs ==
    {<<"E", "m", "a", "i", "l">>,
     <<"M", "a", "i", "l">>,
     <<"e", "m", "a", "i", "l">>,
     <<"F", "a", "x">>,
     <<" ", "M", "a", "i", "l", " ">>}

InitValidator ==
    /\ var_name \in NameInputs
    /\ var_bday \in BirthdaySubmitted
    /\ var_email \in EmailInputs
    /\ var_phone \in PhoneInputs
    /\ var_contact \in ContactInputs
    /\ txt_address \in AddressInputs
    /\ tables = {TABLE_SQL}
    /\ rows = <<>>
    /\ sqlite_sequence = 0
    /\ con_open = FALSE
    /\ dialog = NoDialog
    /\ last = [op |-> "__init__", input |-> NoInput, errors |-> <<>>,
               invoked |-> FALSE, raised |-> "None", ret |-> {}]

\* a call of _validate_birthday on the text of the birthday entry as it is
call_validate_birthday ==
    /\ last' = [op |-> "_validate_birthday",
                input |-> [NoInput EXCEPT !.birthday = var_bday],
                errors |-> <<>>, invoked |-> FALSE, raised |-> "None",
                ret |-> {_validate_birthday(var_bday)}]
    /\ dialog' = NoDialog
    /\ UNCHANGED <<form, db, con_open>>

NextValidator ==
    \/ on_submit
    \/ clear_form

SpecValidator == InitValidator /\ [][NextValidator]_vars

(***************************************************************************)
(* Specification of the birthday check: _validate_birthday applied to the  *)
(* text of the birthday entry                                              *)
(***************************************************************************)
YearParts ==
    {<<"2", "0", "0", "1">>, <<"2", "0", "0", "0">>, <<"1", "9", "0", "0">>,
     <<"0", "0", "0", "0">>, <<"0", "0", "0", "1">>, <<"2", "0", "1">>}

MonthParts ==
    {<<"0", "2">>, <<"2">>, <<"0", "4">>, <<"1", "2">>, <<"1", "3">>,
     <<"0", "0">>, <<"0">>, <<"1">>}

DayParts ==
    {<<"2", "9">>, <<"2", "8">>, <<"3", "0">>, <<"3", "1">>, <<"3", "2">>,
     <<"0", "9">>, <<"9">>, <<" ", "9">>, <<"0", "0">>, <<"0">>,
     <<"0", "9", "1">>, <<"0", "9", " ">>, <<"0", "9", "\n">>}

\* year-month-day strings made of the parts above
Dashed == {y \o <<"-">> \o m \o <<"-">> \o d :
             y \in YearParts, m \in MonthParts, d \in DayParts}

OtherBirthdays ==
    {<<>>,
     <<" ", "2", "0", "0", "1", "-", "0", "4", "-", "0", "9">>,
     <<"2", "0", "1", "-", "0", "4", "-", "0", "9">>,
     <<"2", "0", "0", "1", "/", "0", "4", "/", "0", "9">>,
     <<"2", "0", "0", "1", "0", "4", "0", "9">>,
     <<"2", "0", "0", "1", "-", "0", "4", "0", "9">>,
     <<"2", "0", "0", "1", "-", "1", "-", "2", "-", "3">>,
     <<"0", "9", "-", "0", "4", "-", "2", "0", "0", "1">>,
     <<"2", "0", "0", "1", "-", "0", "4">>,
     <<"2", "0", "0", "1", "-", "0", "4", "-">>,
     <<"0", "2", "0", "0", "1", "-", "0", "4", "-", "0", "9">>}

BirthdayInputs == Dashed \cup OtherBirthdays

InitBirthday ==
    /\ var_name = <<>>
    /\ var_bday \in BirthdayInputs
    /\ var_email = <<>>
    /\ var_phone = <<>>
    /\ var_contact = Email
    /\ txt_address = <<>>
    /\ tables = {TABLE_SQL}
    /\ rows = <<>>
    /\ sqlite_sequence = 0
    /\ con_open = FALSE
    /\ dialog = NoDialog
    /\ last = [op |-> "__init__", input |-> NoInput, errors |-> <<>>,
               invoked |-> FALSE, raised |-> "None", ret |-> {}]

NextBirthday == call_validate_birthday

SpecBirthday == InitBirthday /\ [][NextBirthday]_vars

(***************************************************************************)
(* Specification of the store: init_db and save_to_db called directly,     *)
(* with records the validation has not seen                                *)
(***************************************************************************)
StoreNames ==
    {<<"A", "l">>,
     <<>>,
     NULL}

StoreContacts ==
    {<<"E", "m", "a", "i", "l">>,
     <<"P", "h", "o", "n", "e">>,
     <<"M", "a", "i", "l">>,
     <<"e", "m", "a", "i", "l">>,
     <<"F", "a", "x">>,
     <<" ", "E", "m", "a", "i", "l">>,
     NULL}

StoreRecords ==
    {[name |-> n, birthday |-> <<"2", "0", "0", "1", "-", "0", "4", "-", "0", "9">>,
      email |-> <<"a", "@", "b", ".", "c">>,
      phone |-> <<"5", "5", "5", "-", "1", "2", "3", "4">>,
      address |-> <<"1", " ", "M", "a", "i", "n">>,
      preferred_contact |-> c] : n \in StoreNames, c \in StoreContacts}

\* save_to_db(data) called by a caller other than on_submit
call_save_to_db ==
    \E data \in StoreRecords : \E io \in IOOutcomes :
        LET r == save_to_db(tables, rows, sqlite_sequence, data, io)
        IN  /\ r.raised = "None" => Len(rows) < MaxRows
            /\ rows' = r.rows
            /\ sqlite_sequence' = r.seq
            /\ con_open' = r.con_open
            /\ last' = [op |-> "save_to_db", input |-> data, errors |-> <<>>,
                        invoked |-> TRUE, raised |-> r.raised, ret |-> r.ret]
            /\ dialog' = NoDialog
            /\ UNCHANGED <<form, tables>>

NextStore ==
    \/ init_db
    \/ call_save_to_db

SpecStore == Init /\ [][NextStore]_vars

(***************************************************************************)
(* Properties                                                              *)
(***************************************************************************)
Fax == <<"F", "a", "x">>

\* the number written in the characters from..to of s
RECURSIVE Num(_, _, _)
Num(s, from, to) ==
    IF to < from THEN 0 ELSE 10 * Num(s, from, to - 1) + DigitVal(s[to])

\* a day of the calendar
CalendarDate(y, m, d) ==
    /\ y >= 1 /\ y <= 9999
    /\ m \in 1..12
    /\ d >= 1
    /\ d <= (IF m = 2
             THEN (IF y % 4 = 0 /\ (y % 100 # 0 \/ y % 400 = 0) THEN 29 ELSE 28)
             ELSE IF m \in {4, 6, 9, 11} THEN 30 ELSE 31)

\* s is the zero-padded YYYY-MM-DD rendering of a calendar date
IsIsoDate(s) ==
    /\ Len(s) = 10
    /\ \A p \in {1, 2, 3, 4, 6, 7, 9, 10} : s[p] \in Digits
    /\ s[5] = "-" /\ s[8] = "-"
    /\ CalendarDate(Num(s, 1, 4), Num(s, 6, 7), Num(s, 9, 10))

\* whether the check of field f rejects the (stripped) values d
Fails(f, d) ==
    CASE f = "name" -> strip(d.name) = <<>>
      [] f = "birthday" -> ~_validate_birthday(d.birthday)
      [] f = "email" -> ~EMAIL_RE(d.email)
      [] f = "phone" -> ~PHONE_RE(d.phone)
      [] f = "address" -> strip(d.address) = <<>>
      [] f = "preferred_contact" -> d.preferred_contact \notin {Email, Phone, Mail}

AnyFails(d) == \E k \in 1..6 : Fails(Columns[k], d)

MsgOf(f) ==
    CASE f = "name" -> MsgName
      [] f = "birthday" -> MsgBirthday
      [] f = "email" -> MsgEmail
      [] f = "phone" -> MsgPhone
      [] f = "address" -> MsgAddress
      [] f = "preferred_contact" -> MsgContact

\* the place of a message in the order name, birthday, email, phone,
\* address, preferred contact
Place(m) == CHOOSE k \in 1..6 : MsgOf(Columns[k]) = m

RowSatisfiesConstraints(r) ==
    /\ strip(r.name) # <<>>
    /\ strip(r.address) # <<>>
    /\ IsIsoDate(r.birthday)
    /\ EMAIL_RE(r.email)
    /\ PHONE_RE(r.phone)
    /\ r.preferred_contact \in {Email, Phone, Mail}

\* C1: every row of the customers table satisfies all field constraints:
\* name and address non-empty after trimming, birthday a valid YYYY-MM-DD
\* calendar date, email and phone matching their patterns, preferred_contact
\* one of Email, Phone, Mail.
C1_RowsSatisfyConstraints ==
    \A i \in 1..Len(rows) : RowSatisfiesConstraints(rows[i])

\* C2: a call of on_submit with at least one field failing its check does
\* not invoke save_to_db and changes neither the customers table nor the
\* form fields.
C2_FailedValidationChangesNothing ==
    [][(last'.op = "on_submit" /\ AnyFails(Stripped(RawInput)))
       => /\ ~last'.invoked
          /\ last'.errors # <<>>
          /\ dialog'.kind = "showerror"
          /\ UNCHANGED <<form, db, con_open>>]_vars

C2_Witness ==
    /\ last.op = "on_submit"
    /\ AnyFails(Stripped(RawInput))
    /\ Len(rows) >= 1
    /\ var_name # <<>>
    /\ var_bday # <<>>

\* C3: the validation step of on_submit produces exactly one message per
\* failing check and none for a passing check, in the order name, birthday,
\* email, phone, address, preferred contact; the list is empty iff all six
\* fields are acceptable.
C3_OneMessagePerFailingCheck ==
    last.op = "on_submit" =>
        LET d == Stripped(last.input)
            e == last.errors
        IN  /\ \A k \in 1..6 :
                  Fails(Columns[k], d)
                  <=> (\E i \in 1..Len(e) : e[i] = MsgOf(Columns[k]))
            /\ Len(e) = Cardinality({k \in 1..6 : Fails(Columns[k], d)})
            /\ \A i \in 1..Len(e) : \A j \in 1..Len(e) :
                  i < j => Place(e[i]) < Place(e[j])
            /\ (e = <<>>) <=> ~AnyFails(d)
            /\ dialog.body = e \/ e = <<>>

C3_Witness ==
    /\ last.op = "on_submit"
    /\ last.errors = <<MsgName, MsgBirthday, MsgEmail, MsgPhone, MsgAddress,
                       MsgContact>>

\* C4: save_to_db called directly with a record whose preferred_contact is
\* not exactly Email, Phone or Mail always fails and adds no row, whatever
\* the other fields are; whenever the store can be opened and holds the
\* customers table, the failure is a constraint error.
C4_SchemaRejectsContact ==
    [][(last'.op = "save_to_db"
        /\ last'.input.preferred_contact \notin {Email, Phone, Mail})
       => /\ last'.raised # "None"
          /\ rows' = rows
          /\ sqlite_sequence' = sqlite_sequence
          /\ (HasTable(tables) /\ last'.raised # UnableToOpen)
             => last'.raised \in {CheckFailed, NotNullFailed}]_vars

C4_Witness ==
    /\ last.op = "save_to_db"
    /\ last.input.preferred_contact = Fax
    /\ last.raised = CheckFailed
    /\ Len(rows) >= 1

\* C5 as the specification states it: every successful insert returns to its caller the fresh
\* positive id of the row it added.
C5_InsertReturnsFreshId ==
    (last.op = "save_to_db" /\ last.raised = "None")
    => /\ last.ret # {}
       /\ \A v \in last.ret : v = rows[Len(rows)].id /\ v > 0

\* C5: every successful insert gives the row it adds a fresh positive id
\* strictly greater than every id assigned by an earlier insert, so the ids
\* in the table are unique and increase in insertion order; save_to_db
\* itself returns nothing to its caller.
C5_FreshIncreasingIds ==
    /\ [](/\ \A i \in 1..Len(rows) : rows[i].id > 0 /\ rows[i].id <= sqlite_sequence
          /\ \A i \in 1..Len(rows) : \A j \in 1..Len(rows) :
                i < j => rows[i].id < rows[j].id
          /\ last.op = "save_to_db" => last.ret = {})
    /\ [][(last'.op = "save_to_db" /\ last'.raised = "None")
          => /\ Len(rows') = Len(rows) + 1
             /\ rows'[Len(rows')].id > sqlite_sequence
             /\ \A i \in 1..Len(rows) : rows'[Len(rows')].id > rows[i].id]_vars

C5_Witness ==
    /\ last.op = "save_to_db"
    /\ last.raised = "None"
    /\ Len(rows) = 2
    /\ rows[2].id > rows[1].id

\* C6: an insert that fails for any reason leaves the customers table as it
\* was before the call, and the connection opened for it is closed.
C6_FailedInsertChangesNothing ==
    [][(last'.op = "save_to_db" /\ last'.raised # "None")
       => /\ rows' = rows
          /\ sqlite_sequence' = sqlite_sequence
          /\ tables' = tables
          /\ ~con_open']_vars

C6_Witness ==
    /\ last.op = "save_to_db"
    /\ last.raised = DiskError
    /\ Len(rows) >= 1
    /\ ~con_open

\* C7: init_db is idempotent: whatever the store holds, it raises nothing
\* but a failure of the storage itself, leaves exactly one customers table
\* with the schema of TABLE_SQL, leaves every row unchanged, and a second
\* call changes nothing the first has not done.
C7_InitDbIdempotent ==
    [][last'.op = "init_db"
       => /\ last'.raised \in {"None", UnableToOpen, DiskError}
          /\ HasTable(tables) => last'.raised # DiskError
          /\ last'.raised = "None" => tables' = {TABLE_SQL}
          /\ HasTable(tables) => tables' = tables
          /\ rows' = rows
          /\ sqlite_sequence' = sqlite_sequence
          /\ (last.op = "init_db" /\ last.raised = "None"
              /\ last'.raised = "None") => UNCHANGED vars]_vars

C7_Witness ==
    /\ last.op = "init_db"
    /\ last.raised = "None"
    /\ tables = {TABLE_SQL}
    /\ Len(rows) >= 1

\* C8: the birthday check returns true iff its input is exactly the
\* zero-padded YYYY-MM-DD rendering of a valid calendar date.
C8_BirthdayIffIsoDate ==
    last.op = "_validate_birthday"
    => (last.ret = {TRUE} <=> IsIsoDate(last.input.birthday))

\* C9: the customers table is append-only: a step either leaves it as it is
\* or is a successful insert that adds exactly one row after the others,
\* which stay as they were.
C9_AppendOnly ==
    [][\/ rows' = rows
       \/ /\ last'.op = "on_submit"
          /\ last'.raised = "None"
          /\ Len(rows') = Len(rows) + 1
          /\ SubSeq(rows', 1, Len(rows)) = rows]_vars

C9_Witness ==
    /\ Len(rows) = 2
    /\ last.op = "on_submit"
    /\ last.invoked
    /\ last.raised = "None"

\* the text the user typed into the address widget (Text.get adds a newline)
TypedAddress(a) == SubSeq(a, 1, Len(a) - 1)

\* C10 as the specification states it: after a successful submission the new row's six fields
\* equal the six submitted field values character for character.
C10_RowEqualsRawInput ==
    (last.op = "on_submit" /\ last.invoked /\ last.raised = "None")
    => LET r == rows[Len(rows)]
       IN  /\ r.name = last.input.name
           /\ r.birthday = last.input.birthday
           /\ r.email = last.input.email
           /\ r.phone = last.input.phone
           /\ r.address = TypedAddress(last.input.address)
           /\ r.preferred_contact = last.input.preferred_contact

\* C10: after a successful submission the new row is the last row of the
\* table and its six fields equal the six submitted field values with their
\* leading and trailing whitespace removed.
C10_RowEqualsStrippedInput ==
    (last.op = "on_submit" /\ last.invoked /\ last.raised = "None")
    => /\ Len(rows) >= 1
       /\ LET r == rows[Len(rows)]
          IN  /\ r.id = sqlite_sequence
              /\ r.name = strip(last.input.name)
              /\ r.birthday = strip(last.input.birthday)
              /\ r.email = strip(last.input.email)
              /\ r.phone = strip(last.input.phone)
              /\ r.address = strip(last.input.address)
              /\ r.preferred_contact = strip(last.input.preferred_contact)

C10_Witness ==
    /\ last.op = "on_submit"
    /\ last.invoked
    /\ last.raised = "None"
    /\ last.input.name # strip(last.input.name)
    /\ rows[Len(rows)].name = strip(last.input.name)

====
